---------------------------- MODULE Spec2Model ----------------------------
(***************************************************************************)
(* Model of the morning digest bot (src/main.py): the subscriber registry  *)
(* (bot_data["subscribers"] and subscribers.json), the /start handler, the *)
(* daily digest cycle with its two upstream fetches, and start-up.         *)
(*                                                                         *)
(* Python sets are objects: send_daily_digest keeps a reference to the set *)
(* object of bot_data while start_handler mutates that object in place, so *)
(* the model has a heap of set objects and references to them.  Coroutines *)
(* run on one event loop: a step of the model is the code between two      *)
(* await points.                                                           *)
(***************************************************************************)
EXTENDS Integers, Sequences, FiniteSets, TLC

\* ------------------------------------------------------------------ bounds
MaxId == 2

\* ------------------------------------------------------- program constants
MAX_DESCRIPTION_LEN == 260

Ids == 1..MaxId
NoId == 0

\* ------------------------------------------------------------ sequences
Range(s) == {s[i] : i \in DOMAIN s}

RECURSIVE Iter(_)
\* One iteration order of a Python set (the order is the interpreter's).
Iter(S) == IF S = {} THEN <<>>
           ELSE LET x == CHOOSE y \in S : TRUE IN <<x>> \o Iter(S \ {x})

RECURSIVE Insert(_, _)
Insert(x, s) == IF s = <<>> THEN <<x>>
                ELSE IF x <= Head(s) THEN <<x>> \o s
                ELSE <<Head(s)>> \o Insert(x, Tail(s))

RECURSIVE sorted(_)
\* sorted(iterable): ascending, duplicates kept as the iterable has them.
sorted(s) == IF s = <<>> THEN <<>> ELSE Insert(Head(s), sorted(Tail(s)))

\* ------------------------------------------------- the subscriber file
\* The text of subscribers.json is a sequence of JSON tokens [t, v]:
\*   lb rb comma      [ ] ,
\*   num v            an integer literal
\*   float v          a real literal, v in tenths (15 is 1.5)
\*   numstr v         a string holding the decimal numeral of v ("12")
\*   str              a string that is no numeral ("abc")
\*   true, null       the literals
\*   arr, obj         a nested [] and a {} as one item
\*   junk             text that is no JSON token (not json)
Tok(t, v) == [t |-> t, v |-> v]
LB == Tok("lb", 0)
RB == Tok("rb", 0)
COMMA == Tok("comma", 0)
ItemKinds == {"num", "float", "numstr", "str", "true", "null", "arr", "obj"}

RECURSIVE ParseItems(_)
\* The items between [ and ]: item (, item)*; <<"error">> when malformed.
ParseItems(ts) ==
    IF ts = <<>> THEN [ok |-> FALSE, items |-> <<>>]
    ELSE IF Head(ts).t \notin ItemKinds THEN [ok |-> FALSE, items |-> <<>>]
    ELSE IF Len(ts) = 1 THEN [ok |-> TRUE, items |-> ts]
    ELSE IF ts[2] # COMMA THEN [ok |-> FALSE, items |-> <<>>]
    ELSE LET rest == ParseItems(SubSeq(ts, 3, Len(ts)))
         IN  [ok |-> rest.ok,
              items |-> IF rest.ok THEN <<Head(ts)>> \o rest.items ELSE <<>>]

\* json.loads(text): kind "error" is JSONDecodeError, "list" a JSON array,
\* "other" any other JSON document.
json_loads(text) ==
    IF text = <<>> THEN [kind |-> "error", items |-> <<>>]
    ELSE IF Len(text) = 1 /\ text[1].t \in ItemKinds
         THEN [kind |-> IF text[1].t = "arr" THEN "list" ELSE "other",
               items |-> <<>>]
    ELSE IF Head(text) = LB /\ text[Len(text)] = RB /\ Len(text) >= 2
         THEN IF Len(text) = 2 THEN [kind |-> "list", items |-> <<>>]
              ELSE LET p == ParseItems(SubSeq(text, 2, Len(text) - 1))
                   IN  IF p.ok THEN [kind |-> "list", items |-> p.items]
                       ELSE [kind |-> "error", items |-> <<>>]
    ELSE [kind |-> "error", items |-> <<>>]

RECURSIVE Commas(_)
Commas(s) == IF Len(s) <= 1 THEN s
             ELSE <<Head(s), COMMA>> \o Commas(Tail(s))

\* json.dumps(list of int, indent=2): white space is between tokens.
json_dumps(ints) ==
    <<LB>> \o Commas([i \in DOMAIN ints |-> Tok("num", ints[i])]) \o <<RB>>

\* int(item) for one parsed JSON item: the exception it raises, or "none".
IntRaises(item) ==
    CASE item.t \in {"num", "float", "numstr", "true"} -> "none"
      [] item.t = "str" -> "ValueError"
      [] OTHER -> "TypeError"

\* int() truncates a real toward zero.
IntValue(item) ==
    CASE item.t = "float" ->
            IF item.v >= 0 THEN item.v \div 10 ELSE -((-item.v) \div 10)
      [] item.t = "true" -> 1
      [] OTHER -> item.v

\* The exception of the first item, in order, on which int() raises.
FirstRaise(items) ==
    LET bad == {i \in DOMAIN items : IntRaises(items[i]) # "none"}
    IN  IF bad = {} THEN "none"
        ELSE IntRaises(items[CHOOSE i \in bad : \A j \in bad : i <= j])

\* The file system's view of subscribers.json.
File(exists, readable, text) ==
    [exists |-> exists, readable |-> readable, text |-> text]
NoFile == File(FALSE, FALSE, <<>>)

\* load_subscribers(): raised is the exception that leaves the function
\* ("none" when it returns), value the set returned.
load_subscribers(f) ==
    IF ~f.exists THEN [raised |-> "none", value |-> {}]
    ELSE IF ~f.readable THEN [raised |-> "none", value |-> {}]   \* OSError
    ELSE LET data == json_loads(f.text) IN
         IF data.kind = "error" THEN [raised |-> "none", value |-> {}]
         ELSE IF data.kind # "list" THEN [raised |-> "none", value |-> {}]
         ELSE LET exc == FirstRaise(data.items) IN
              IF exc = "none"
              THEN [raised |-> "none",
                    value |-> {IntValue(data.items[i]) : i \in DOMAIN data.items}]
              ELSE IF exc = "ValueError" THEN [raised |-> "none", value |-> {}]
              ELSE [raised |-> exc, value |-> {}]

\* The text save_subscribers writes for a set iterated in the order s.
save_text_unsorted(s) == json_dumps(s)
save_text(s) == json_dumps(sorted(s))

\* save_subscribers(subscribers) on file f.  The write succeeds ("ok"), or
\* raises OSError before the file is opened ("denied": file as it was) or
\* after it was truncated ("torn": an empty file).
save_subscribers(f, s, outcome) ==
    CASE outcome = "ok" -> File(TRUE, TRUE, save_text(s))
      [] outcome = "torn" -> File(TRUE, f.readable, <<>>)
      [] OTHER -> f
WriteOutcomes == {"ok", "denied", "torn"}

\* ---------------------------------------------------------------- strings
\* A str is a sequence of one-character strings.
Uppers == <<"A","B","C","D","E","F","G","H","I","J","K","L","M",
            "N","O","P","Q","R","S","T","U","V","W","X","Y","Z">>
Lowers == <<"a","b","c","d","e","f","g","h","i","j","k","l","m",
            "n","o","p","q","r","s","t","u","v","w","x","y","z">>
Whitespace == {" ", "\n", "\t"}

LowerChar(c) == IF \E i \in DOMAIN Uppers : Uppers[i] = c
                THEN Lowers[CHOOSE i \in DOMAIN Uppers : Uppers[i] = c] ELSE c
UpperChar(c) == IF \E i \in DOMAIN Lowers : Lowers[i] = c
                THEN Uppers[CHOOSE i \in DOMAIN Lowers : Lowers[i] = c] ELSE c

\* str.lower()
lower(s) == [i \in DOMAIN s |-> LowerChar(s[i])]
\* str.capitalize(): first character upper case, the rest lower case
capitalize(s) == [i \in DOMAIN s |-> IF i = 1 THEN UpperChar(s[i]) ELSE LowerChar(s[i])]

\* sub in s
Contains(s, sub) ==
    \E i \in 0..(Len(s) - Len(sub)) : SubSeq(s, i + 1, i + Len(sub)) = sub

\* str.rstrip(), str.lstrip(), str.strip()
rstrip(s) ==
    LET keep == {i \in DOMAIN s : s[i] \notin Whitespace}
    IN  IF keep = {} THEN <<>>
        ELSE SubSeq(s, 1, CHOOSE i \in keep : \A j \in keep : j <= i)
lstrip(s) ==
    LET keep == {i \in DOMAIN s : s[i] \notin Whitespace}
    IN  IF keep = {} THEN <<>>
        ELSE SubSeq(s, CHOOSE i \in keep : \A j \in keep : i <= j, Len(s))
strip(s) == rstrip(lstrip(s))

Ellipsis == <<".", ".", ".">>

\* ------------------------------------------------------- upstream fetches
\* An HTTP exchange: net FALSE is a timeout or connection error; status is
\* the HTTP status; json FALSE is a body that is no JSON; body the payload.
Response(net, status, json, body) ==
    [net |-> net, status |-> status, json |-> json, body |-> body]

\* round(float(x)) for x given in tenths: Python rounds half to even.
round(tenths) ==
    LET q == tenths \div 10
        r == tenths % 10
    IN  IF r < 5 THEN q
        ELSE IF r > 5 THEN q + 1
        ELSE IF q % 2 = 0 THEN q ELSE q + 1

WeatherData(temp, feels_like, humidity, description) ==
    [temp |-> temp, feels_like |-> feels_like, humidity |-> humidity,
     description |-> description]
NoWeatherData == WeatherData(0, 0, 0, <<>>)

\* The OpenWeather payload: complete FALSE lacks a required field.
WeatherBody(complete, temp, feels_like, humidity, description) ==
    [complete |-> complete, temp |-> temp, feels_like |-> feels_like,
     humidity |-> humidity, description |-> description]

\* fetch_weather: exc is the exception raised ("none": data is returned).
fetch_weather(r) ==
    IF ~r.net THEN [exc |-> "TransportError", data |-> NoWeatherData]
    ELSE IF r.status = 429 THEN [exc |-> "RuntimeError", data |-> NoWeatherData]
    ELSE IF r.status # 200 THEN [exc |-> "HTTPStatusError", data |-> NoWeatherData]
    ELSE IF ~r.json THEN [exc |-> "ValueError", data |-> NoWeatherData]
    ELSE IF ~r.body.complete THEN [exc |-> "KeyError", data |-> NoWeatherData]
    ELSE [exc |-> "none",
          data |-> WeatherData(round(r.body.temp), round(r.body.feels_like),
                               r.body.humidity, capitalize(r.body.description))]

\* A JSON string or null.
Str(s) == [none |-> FALSE, s |-> s]
Null == [none |-> TRUE, s |-> <<>>]
\* (x or "")
OrEmpty(x) == IF x.none THEN <<>> ELSE x.s

Article(title, description, url) ==
    [title |-> title, description |-> description, url |-> url]
NoArticle == Article(<<>>, <<>>, <<>>)
\* The News API payload: status "ok" or "error", and the articles.
NewsBody(status, articles) == [status |-> status, articles |-> articles]

\* Lines 116-117 with the test made with >=.
truncate_from_limit(description) ==
    IF Len(description) >= MAX_DESCRIPTION_LEN
    THEN rstrip(SubSeq(description, 1, MAX_DESCRIPTION_LEN - 3)) \o Ellipsis
    ELSE description
\* The description as returned for a selected article (lines 116-117).
truncate_description(description) ==
    IF Len(description) > MAX_DESCRIPTION_LEN
    THEN rstrip(SubSeq(description, 1, MAX_DESCRIPTION_LEN - 3)) \o Ellipsis
    ELSE description

\* Line 115 on the fields as they came, not stripped.
qualifies_unstripped(article) ==
    /\ OrEmpty(article.title) # <<>>
    /\ OrEmpty(article.description) # <<>>
    /\ OrEmpty(article.url) # <<>>
\* An article passes line 115 when the three stripped fields are non-empty.
Qualifies(article) ==
    /\ strip(OrEmpty(article.title)) # <<>>
    /\ strip(OrEmpty(article.description)) # <<>>
    /\ strip(OrEmpty(article.url)) # <<>>

\* The loop of lines 110-120: some TRUE with the first qualifying article,
\* or None.
select_article(articles) ==
    LET hits == {i \in DOMAIN articles : Qualifies(articles[i])}
    IN  IF hits = {} THEN [some |-> FALSE, article |-> NoArticle]
        ELSE LET a == articles[CHOOSE i \in hits : \A j \in hits : i <= j]
             IN  [some |-> TRUE,
                  article |-> Article(strip(OrEmpty(a.title)),
                                      truncate_description(strip(OrEmpty(a.description))),
                                      strip(OrEmpty(a.url)))]

\* fetch_positive_news: exc is the exception raised; with "none", news is
\* the dict returned (some TRUE) or None.
fetch_positive_news(r) ==
    LET none == [some |-> FALSE, article |-> NoArticle] IN
    IF ~r.net THEN [exc |-> "TransportError", news |-> none]
    ELSE IF r.status = 429 THEN [exc |-> "RuntimeError", news |-> none]
    ELSE IF r.status # 200 THEN [exc |-> "HTTPStatusError", news |-> none]
    ELSE IF ~r.json THEN [exc |-> "ValueError", news |-> none]
    ELSE IF r.body.status = "error" THEN [exc |-> "RuntimeError", news |-> none]
    ELSE [exc |-> "none", news |-> select_article(r.body.articles)]

\* ---------------------------------------------------------- the message
\* The message is its lines, joined by "\n".  A line is [k, n, s]: k names
\* the fixed text of the line, n the number and s the str formatted into it.
Line(k, n, s) == [k |-> k, n |-> n, s |-> s]
Fixed(k) == Line(k, 0, <<>>)

build_message(weather, news) ==
    <<Fixed("greeting"), Fixed("blank"), Fixed("location")>>
    \o (IF ~weather.some
        THEN <<Fixed("weather_unavailable")>>
        ELSE <<Line("temp", weather.data.temp, <<>>),
               Line("feels_like", weather.data.feels_like, <<>>),
               Line("humidity", weather.data.humidity, <<>>),
               Line("description", 0, weather.data.description)>>)
    \o <<Fixed("blank"), Fixed("news_header")>>
    \o (IF ~news.some
        THEN <<Fixed("no_news")>>
        ELSE <<Line("text", 0, news.article.title),
               Line("text", 0, news.article.description),
               Line("text", 0, news.article.url)>>)

\* Lines 160-173 with one test for both results: a failure of either fetch
\* discards both.
render_both_or_none(weather_result, news_result) ==
    LET ok == weather_result.exc = "none" /\ news_result.exc = "none" IN
    build_message(
        [some |-> ok, data |-> weather_result.data],
        [some |-> ok /\ news_result.news.some,
         article |-> news_result.news.article])
\* Lines 160-173 of build_daily_message: an exception of a fetch becomes None.
render(weather_result, news_result) ==
    build_message(
        [some |-> weather_result.exc = "none", data |-> weather_result.data],
        [some |-> news_result.exc = "none" /\ news_result.news.some,
         article |-> news_result.news.article])

\* --------------------------------------------------- sample upstream data
TxtTitle == Str(<<" ","G","o","o","d"," ","n","e","w","s"," ">>)
TxtUrl == Str(<<"h","t","t","p",":","/","/","u">>)
TxtDesc == Str(<<"A"," ","f","i","n","e"," ","d","a","y",".">>)
TxtBlank == Str(<<" ", " ">>)
TxtSky == <<"c","l","e","a","r"," ","S","K","Y">>

WeatherResponses ==
    { Response(FALSE, 0, FALSE, WeatherBody(FALSE, 0, 0, 0, <<>>)),
      Response(TRUE, 200, TRUE, WeatherBody(TRUE, 125, -35, 80, TxtSky)) }

NewsResponses ==
    { Response(TRUE, 429, FALSE, NewsBody("ok", <<>>)),
      Response(TRUE, 200, TRUE,
               NewsBody("ok", <<Article(TxtBlank, TxtDesc, TxtUrl),
                                Article(TxtTitle, Null, TxtUrl)>>)),
      Response(TRUE, 200, TRUE,
               NewsBody("ok", <<Article(TxtTitle, TxtDesc, Null),
                                Article(TxtTitle, TxtDesc, TxtUrl)>>)) }

\* ------------------------------------------------------ delivery failures
\* str(exc) of the exceptions send_message raises.
ErrForbidden == <<"F","o","r","b","i","d","d","e","n",":"," ","b","o","t"," ","w","a","s"," ","b","l","o","c","k","e","d">>
ErrChatNotFound == <<"C","h","a","t"," ","n","o","t"," ","f","o","u","n","d">>
ErrTimedOut == <<"T","i","m","e","d"," ","o","u","t">>
ErrTexts == {ErrForbidden, ErrChatNotFound, ErrTimedOut}

\* Lines 210-211 with the lower() left out.
is_stale_case_sensitive(text) ==
    Contains(text, <<"f","o","r","b","i","d","d","e","n">>) \/ Contains(text, <<"c","h","a","t"," ","n","o","t"," ","f","o","u","n","d">>)
\* Lines 210-211: the failure is taken to be permanent.
is_stale(text) ==
    LET err == lower(text)
    IN  Contains(err, <<"f","o","r","b","i","d","d","e","n">>) \/ Contains(err, <<"c","h","a","t"," ","n","o","t"," ","f","o","u","n","d">>)

\* The outcome of one send_message call: delivered, or raised with text err.
Delivered == [ok |-> TRUE, err |-> <<>>]
Raised(text) == [ok |-> FALSE, err |-> text]
SendOutcomes == {Delivered} \cup {Raised(e) : e \in ErrTexts}

\* ------------------------------------------------------------------ state
VARIABLES
    env,        \* the three configuration values: TRUE when non-empty
    app,        \* main(): where start-up is, what is registered
    file,       \* subscribers.json
    heap,       \* the set objects: object -> its members
    bot_data,   \* bot_data["subscribers"]: the object referred to (0: unset)
    h,          \* the start_handler invocation in progress or last finished
    d,          \* the send_daily_digest invocation in progress or last finished
    reg,        \* the registry exercised alone: last save and load
    wfail,      \* the last write of subscribers.json failed
    fetch       \* fetch_positive_news exercised alone: response and result

vars == <<env, app, file, heap, bot_data, h, d, reg, wfail, fetch>>

ObjIds == {1, 2}
NoObj == 0
\* The object a new set() gets: the one bot_data does not refer to.
NewObj == CHOOSE o \in ObjIds : o # bot_data

\* What is known of one recipient in the cycle: n delivery attempts, the
\* text passed to the last and its outcome.
NoAttempt == [n |-> 0, text |-> <<>>, ok |-> FALSE, err |-> <<>>]

NoWeatherResult == [st |-> "unset", exc |-> "none", data |-> NoWeatherData]
NoNewsResult ==
    [st |-> "unset", exc |-> "none", news |-> [some |-> FALSE, article |-> NoArticle]]

\* A send_daily_digest frame: the locals of the function (subscribers,
\* weather_result, news_result, message, chat_id, stale_chat_ids; snapshot
\* and remaining are the copy set(subscribers) the loop iterates and what is
\* left of it), and what the invocation did so far: att, the delivery
\* attempts; added, the ids start_handler added meanwhile, and readded, those
\* of them that were in stale_chat_ids by then; nweather, nnews, nsaves, the
\* requests and the writes it made.
IdleDigest ==
    [pc |-> "idle", subscribers |-> NoObj,
     weather_result |-> NoWeatherResult, news_result |-> NoNewsResult,
     message |-> <<>>, snapshot |-> {}, remaining |-> {}, chat_id |-> NoId,
     stale_chat_ids |-> {},
     att |-> [c \in Ids |-> NoAttempt], added |-> {}, readded |-> {},
     nweather |-> 0, nnews |-> 0, nsaves |-> 0]

\* A start_handler frame: chat_id and message, the update's effective chat
\* and whether it has an effective message, and what the invocation did:
\* again, the id was subscribed already; saved, the file was written;
\* replies, the reply_text calls.
IdleHandler ==
    [pc |-> "idle", chat_id |-> NoId, message |-> FALSE, again |-> FALSE,
     saved |-> FALSE, replies |-> 0]

IdleReg == [phase |-> "init", set |-> {}, order |-> <<>>,
            result |-> [raised |-> "none", value |-> {}]]

\* No request made: the response is a transport failure, nothing returned.
IdleFetch ==
    [phase |-> "init", response |-> Response(FALSE, 0, FALSE, NewsBody("ok", <<>>)),
     result |-> [exc |-> "none", news |-> [some |-> FALSE, article |-> NoArticle]]]

\* The subscriber set as bot_data has it.
Subscribers == IF bot_data = NoObj THEN {} ELSE heap[bot_data]

DigestRunning == d.pc \in {"fetching", "sending"}

\* A coroutine that has ended returns at once: its frame is dropped before
\* the event loop runs anything else.
Returning ==
    \/ h.pc \in {"done", "failed"}
    \/ d.pc \in {"done", "failed", "skipped"}

\* ---------------------------------------------------------------- start-up
InitFiles ==
    { NoFile,
      File(TRUE, TRUE, json_dumps(sorted(Iter(Ids)))),
      File(TRUE, TRUE, <<LB, Tok("null", 0), RB>>) }

Init ==
    /\ env \in [TELEGRAM_TOKEN : BOOLEAN, OPENWEATHER_API_KEY : BOOLEAN,
                NEWS_API_KEY : BOOLEAN]
    /\ app = [pc |-> "validate", handler |-> FALSE, job |-> FALSE]
    /\ file \in InitFiles
    /\ heap = [o \in ObjIds |-> {}]
    /\ bot_data = NoObj
    /\ h = IdleHandler
    /\ d = IdleDigest
    /\ reg = IdleReg
    /\ wfail = FALSE
    /\ fetch = IdleFetch

\* validate_env() with only the first test (lines 222-223).
missing_token_only == {k \in {"TELEGRAM_TOKEN"} : ~env[k]}
\* validate_env(): the names of the missing values.
missing ==
    {k \in {"TELEGRAM_TOKEN", "OPENWEATHER_API_KEY", "NEWS_API_KEY"} : ~env[k]}

\* main(), line 234: validate_env() raises when a value is missing.
validate_env ==
    /\ app.pc = "validate"
    /\ app' = [app EXCEPT !.pc = IF missing # {} THEN "crashed" ELSE "load"]
    /\ UNCHANGED <<env, file, heap, bot_data, h, d, reg, wfail, fetch>>

\* main(), lines 236-237: bot_data["subscribers"] = load_subscribers().
main_load ==
    /\ app.pc = "load"
    /\ LET r == load_subscribers(file) IN
       IF r.raised # "none"
       THEN /\ app' = [app EXCEPT !.pc = "crashed"]
            /\ UNCHANGED <<heap, bot_data>>
       ELSE /\ app' = [app EXCEPT !.pc = "register"]
            /\ bot_data' = 1
            /\ heap' = [heap EXCEPT ![1] = r.value]
    /\ UNCHANGED <<env, file, h, d, reg, wfail, fetch>>

\* main(), line 239: app.add_handler(CommandHandler("start", start_handler)).
main_add_handler ==
    /\ app.pc = "register"
    /\ app' = [app EXCEPT !.pc = "schedule", !.handler = TRUE]
    /\ UNCHANGED <<env, file, heap, bot_data, h, d, reg, wfail, fetch>>

\* main(), lines 241-246: app.job_queue.run_daily(send_daily_digest, ...).
main_run_daily ==
    /\ app.pc = "schedule"
    /\ app' = [app EXCEPT !.pc = "run", !.job = TRUE]
    /\ UNCHANGED <<env, file, heap, bot_data, h, d, reg, wfail, fetch>>

\* main(), line 249: app.run_polling(): updates and jobs are served from here.
main_run_polling ==
    /\ app.pc = "run"
    /\ app' = [app EXCEPT !.pc = "polling"]
    /\ UNCHANGED <<env, file, heap, bot_data, h, d, reg, wfail, fetch>>



\* ------------------------------------------------------------ start_handler
\* An update: effective_chat is None (chat = NoId) or a chat with an id;
\* effective_message is None or a message.
Updates == [chat : Ids \cup {NoId}, message : BOOLEAN]

\* Lines 185-187 with the save skipped for an id that is subscribed already.
save_if_new(f, subscribers, chat_id, write) ==
    IF chat_id \in subscribers THEN f
    ELSE save_subscribers(f, Iter(subscribers \cup {chat_id}), write)
\* Lines 185-187 with the save made before the add.
save_before_add(f, subscribers, chat_id, write) ==
    save_subscribers(f, Iter(subscribers), write)
\* Lines 185-187: the file after subscribers.add(chat_id) and the save.
save_after_add(f, subscribers, chat_id, write) ==
    save_subscribers(f, Iter(subscribers \cup {chat_id}), write)

\* Lines 177-190, up to the await of reply_text; the write of line 187
\* succeeds or raises OSError, which ends the handler.  The application
\* serves one update at a time, so invocations do not overlap.
start_handler(update) ==
    /\ app.pc = "polling" /\ app.handler
    /\ ~Returning
    /\ h.pc = "idle"
    /\ IF update.chat = NoId
       THEN /\ h' = [IdleHandler EXCEPT !.pc = "done", !.message = update.message]
            /\ UNCHANGED <<heap, file, d, wfail>>
       ELSE \E write \in WriteOutcomes :
            /\ heap' = [heap EXCEPT ![bot_data] = @ \cup {update.chat}]
            /\ file' = save_after_add(file, heap[bot_data], update.chat, write)
            /\ h' = [pc |-> IF write # "ok" THEN "failed"
                            ELSE IF update.message THEN "reply" ELSE "done",
                     chat_id |-> update.chat,
                     message |-> update.message,
                     again |-> update.chat \in heap[bot_data],
                     saved |-> write = "ok",
                     replies |-> IF write = "ok" /\ update.message THEN 1 ELSE 0]
            /\ d' = IF DigestRunning
                    THEN [d EXCEPT !.added = @ \cup {update.chat},
                                   !.readded = @ \cup ({update.chat} \cap
                                                       d.stale_chat_ids)]
                    ELSE d
            /\ wfail' = (write # "ok")
    /\ UNCHANGED <<env, app, bot_data, reg, fetch>>

\* Lines 190-193: reply_text returns (or raises) and the handler ends.
reply_text_returns ==
    /\ h.pc = "reply"
    /\ ~Returning
    /\ h' = [h EXCEPT !.pc = "done"]
    /\ UNCHANGED <<env, app, file, heap, bot_data, d, reg, wfail, fetch>>

\* The handler's coroutine is over (returned, or raised out of line 187).
start_handler_returns ==
    /\ h.pc \in {"done", "failed"}
    /\ h' = IdleHandler
    /\ UNCHANGED <<env, app, file, heap, bot_data, d, reg, wfail, fetch>>

\* -------------------------------------------------------- send_daily_digest
\* Lines 197-202 without the return of line 200.
first_frame_unguarded(subscribers) ==
    [IdleDigest EXCEPT !.pc = "fetching", !.subscribers = bot_data,
                       !.weather_result.st = "pending",
                       !.news_result.st = "pending",
                       !.nweather = 1, !.nnews = 1]
\* Lines 197-202: the frame when the job first waits or returns.
first_frame(subscribers) ==
    IF subscribers = {}
    THEN [IdleDigest EXCEPT !.pc = "skipped"]
    ELSE [IdleDigest EXCEPT !.pc = "fetching", !.subscribers = bot_data,
                            !.weather_result.st = "pending",
                            !.news_result.st = "pending",
                            !.nweather = 1, !.nnews = 1]

\* Lines 197-202 and 151-158: the job runs; with no subscriber it returns,
\* otherwise both fetches are started and the coroutine waits in gather.
\* The job runs once a day and every wait in it is bounded by a timeout, so
\* invocations do not overlap.
send_daily_digest ==
    /\ app.pc = "polling" /\ app.job
    /\ ~Returning
    /\ d.pc = "idle"
    /\ d' = first_frame(heap[bot_data])
    /\ UNCHANGED <<env, app, file, heap, bot_data, h, reg, wfail, fetch>>

\* Lines 74-85: the weather request ends with response r.
weather_responds(r) ==
    /\ d.pc = "fetching" /\ d.weather_result.st = "pending"
    /\ ~Returning
    /\ LET w == fetch_weather(r) IN
       d' = [d EXCEPT !.weather_result =
                          [st |-> "done", exc |-> w.exc, data |-> w.data]]
    /\ UNCHANGED <<env, app, file, heap, bot_data, h, reg, wfail, fetch>>

\* fetch_positive_news on each of the sample responses, tabulated.
news_results == [r \in NewsResponses |-> fetch_positive_news(r)]

\* Lines 100-120: the news request ends with response r.
news_responds(r) ==
    /\ d.pc = "fetching" /\ d.news_result.st = "pending"
    /\ ~Returning
    /\ LET n == news_results[r] IN
       d' = [d EXCEPT !.news_result =
                          [st |-> "done", exc |-> n.exc, news |-> n.news]]
    /\ UNCHANGED <<env, app, file, heap, bot_data, h, reg, wfail, fetch>>

\* A gather that returns with the first result.
gather_returns_on_first(weather_result, news_result) ==
    weather_result.st = "done" \/ news_result.st = "done"
\* Lines 154-158: asyncio.gather returns once both tasks have ended, each
\* with its result or its exception.
gather_returns(weather_result, news_result) ==
    weather_result.st = "done" /\ news_result.st = "done"

\* Line 205 with the copy taken of the set as it was when the job started.
copy_without_added(live, added) == live \ added
\* Line 205: set(subscribers), the copy the loop iterates: the live set as
\* it is when the loop starts, with the ids added meanwhile.
loop_copy(live, added) == live

\* Lines 160-173 and 202-207: gather has both results; the message is
\* rendered, the loop copies the live set and the first send_message is
\* awaited.  A set is iterated in an order of the interpreter's choosing.
begin_delivery ==
    /\ d.pc = "fetching"
    /\ gather_returns(d.weather_result, d.news_result)
    /\ ~Returning
    /\ LET snapshot == loop_copy(heap[d.subscribers], d.added)
           message == render(d.weather_result, d.news_result)
       IN
       \E first \in snapshot :
          d' = [d EXCEPT !.pc = "sending",
                         !.message = message,
                         !.weather_result = NoWeatherResult,
                         !.news_result = NoNewsResult,
                         !.snapshot = snapshot,
                         !.remaining = snapshot \ {first},
                         !.chat_id = first,
                         !.att[first] = [@ EXCEPT !.n = @ + 1, !.text = message]]
    /\ UNCHANGED <<env, app, file, heap, bot_data, h, reg, wfail, fetch>>

\* A loop that stops at the first failed send.
rest_unless_failed(remaining, o) == IF o.ok THEN remaining ELSE {}
\* Lines 205-212: after a send that ended with outcome o the loop goes on
\* with every recipient left, whatever o is.
rest_of_loop(remaining, o) == remaining

\* Line 215 computed from the loop's copy instead of the live set.
updated_from_copy(live, copy, stale) == copy \ stale
\* Line 215: updated = set(subscribers) - stale_chat_ids, on the live set.
updated_set(live, copy, stale) == live \ stale

\* Line 214 without the test.
prune_always(stale) == TRUE
\* Line 214: the set is replaced and saved only when an id is stale.
prune_needed(stale) == stale # {}

\* Lines 210-211 on each of the sample failure texts, tabulated.
stale_texts == {text \in ErrTexts : is_stale(text)}

\* Lines 208-212: stale_chat_ids after the send to chat_id ended with o.
stale_after(stale, chat_id, o) ==
    IF ~o.ok /\ o.err \in stale_texts THEN stale \cup {chat_id} ELSE stale

\* Lines 207-217: the awaited send_message ends with outcome o; the loop
\* goes to the next recipient and awaits its send, or ends, and then the
\* stale ids are pruned and the set is saved; the write of line 217
\* succeeds or raises OSError.
send_message_returns(o) ==
    /\ d.pc = "sending"
    /\ ~Returning
    /\ LET stale == stale_after(d.stale_chat_ids, d.chat_id, o)
           rest == rest_of_loop(d.remaining, o)
           seen == [d EXCEPT !.att[d.chat_id] =
                                 [@ EXCEPT !.ok = o.ok, !.err = o.err],
                             !.stale_chat_ids = stale]
       IN
       IF rest # {}
       THEN /\ \E next \in rest :
                  d' = [seen EXCEPT !.chat_id = next,
                                    !.remaining = rest \ {next},
                                    !.att[next] = [@ EXCEPT !.n = @ + 1,
                                                            !.text = d.message]]
            /\ UNCHANGED <<file, heap, bot_data, wfail>>
       ELSE IF ~prune_needed(stale)
       THEN /\ d' = [seen EXCEPT !.pc = "done", !.remaining = {}]
            /\ UNCHANGED <<file, heap, bot_data, wfail>>
       ELSE LET updated == updated_set(heap[d.subscribers], d.snapshot, stale) IN
            \E write \in WriteOutcomes :
            /\ bot_data' = NewObj
            /\ heap' = [heap EXCEPT ![NewObj] = updated]
            /\ file' = save_subscribers(file, Iter(updated), write)
            /\ d' = [seen EXCEPT !.pc = IF write = "ok" THEN "done" ELSE "failed",
                                 !.remaining = {},
                                 !.nsaves = IF write = "ok" THEN 1 ELSE 0]
            /\ wfail' = (write # "ok")
    /\ UNCHANGED <<env, app, h, reg, fetch>>

\* The job's coroutine is over (returned, or raised out of line 217): its
\* frame is dropped, and with it the last reference to a replaced set.
send_daily_digest_returns ==
    /\ d.pc \in {"done", "failed", "skipped"}
    /\ d' = IdleDigest
    /\ heap' = [o \in ObjIds |-> IF o = bot_data THEN heap[o] ELSE {}]
    /\ UNCHANGED <<env, app, file, bot_data, h, reg, wfail, fetch>>

\* ------------------------------------------------------------ specification
Next ==
    \/ validate_env
    \/ main_load
    \/ main_add_handler
    \/ main_run_daily
    \/ main_run_polling
    \/ \E update \in Updates : start_handler(update)
    \/ reply_text_returns
    \/ start_handler_returns
    \/ send_daily_digest
    \/ \E r \in WeatherResponses : weather_responds(r)
    \/ \E r \in NewsResponses : news_responds(r)
    \/ begin_delivery
    \/ \E o \in SendOutcomes : send_message_returns(o)
    \/ send_daily_digest_returns

Spec == Init /\ [][Next]_vars


\* ------------------------------------------------- the registry, alone
\* load_subscribers and save_subscribers applied to a file in any state and
\* to any set of ids in any iteration order.  Chat ids are Python ints of
\* either sign (a group has a negative id).
SignedIds == {-1} \cup Ids

RECURSIVE Orders(_)
\* The orders a set can be iterated in.
Orders(S) == IF S = {} THEN {<<>>}
             ELSE UNION {{<<x>> \o o : o \in Orders(S \ {x})} : x \in S}

Array(items) == File(TRUE, TRUE, <<LB>> \o Commas(items) \o <<RB>>)
Num(v) == Tok("num", v)

MissingFiles == {NoFile}
UnreadableFiles == {File(TRUE, FALSE, <<LB, Num(1), RB>>)}
NotJsonFiles ==
    { File(TRUE, TRUE, <<>>),
      File(TRUE, TRUE, <<Tok("junk", 0)>>),
      File(TRUE, TRUE, <<LB, Num(1)>>),
      File(TRUE, TRUE, <<LB, Num(1), COMMA, RB>>),
      File(TRUE, TRUE, <<LB, Num(1), Num(2), RB>>) }
NotArrayFiles ==
    { File(TRUE, TRUE, <<Tok("obj", 0)>>),
      File(TRUE, TRUE, <<Num(5)>>),
      File(TRUE, TRUE, <<Tok("str", 0)>>),
      File(TRUE, TRUE, <<Tok("null", 0)>>) }
StringItemFiles ==
    { Array(<<Tok("str", 0)>>),
      Array(<<Num(1), Tok("str", 0)>>),
      Array(<<Num(1), Tok("str", 0), Tok("null", 0)>>) }
NullItemFiles ==
    { Array(<<Tok("null", 0)>>),
      Array(<<Num(1), Tok("null", 0)>>),
      Array(<<Num(1), Tok("null", 0), Tok("str", 0)>>) }
NestedItemFiles ==
    { Array(<<Tok("arr", 0)>>),
      Array(<<Tok("obj", 0)>>),
      Array(<<Num(2), Tok("obj", 0)>>) }
IntegerFiles ==
    { Array(<<>>),
      Array(<<Num(1)>>),
      Array(<<Num(2), Num(-1), Num(2)>>),
      Array(<<Tok("numstr", 2), Tok("float", 15), Tok("true", 0)>>),
      Array(<<Tok("float", -15)>>) }

RegistryFiles ==
    MissingFiles \cup UnreadableFiles \cup NotJsonFiles \cup NotArrayFiles
    \cup StringItemFiles \cup NullItemFiles \cup NestedItemFiles
    \cup IntegerFiles

InitRegistry ==
    /\ env = [TELEGRAM_TOKEN |-> TRUE, OPENWEATHER_API_KEY |-> TRUE,
              NEWS_API_KEY |-> TRUE]
    /\ app = [pc |-> "validate", handler |-> FALSE, job |-> FALSE]
    /\ file \in RegistryFiles
    /\ heap = [o \in ObjIds |-> {}]
    /\ bot_data = NoObj
    /\ h = IdleHandler
    /\ d = IdleDigest
    /\ reg = IdleReg
    /\ wfail = FALSE
    /\ fetch = IdleFetch

\* load_subscribers() on the file as it is.
registry_load ==
    /\ reg' = [reg EXCEPT !.phase = IF reg.phase = "saved" THEN "reloaded"
                                     ELSE "loaded",
                          !.result = load_subscribers(file)]
    /\ UNCHANGED <<env, app, file, heap, bot_data, h, d, wfail, fetch>>

\* save_subscribers(subscribers) for a set iterated in the given order.
registry_save(order) ==
    \E write \in WriteOutcomes :
       /\ file' = save_subscribers(file, order, write)
       /\ reg' = [reg EXCEPT !.phase = IF write = "ok" THEN "saved" ELSE "unsaved",
                             !.set = Range(order), !.order = order,
                             !.result = IdleReg.result]
       /\ wfail' = (write # "ok")
       /\ UNCHANGED <<env, app, heap, bot_data, h, d, fetch>>

NextRegistry ==
    \/ registry_load
    \/ \E S \in SUBSET SignedIds : \E order \in Orders(S) : registry_save(order)

SpecRegistry == InitRegistry /\ [][NextRegistry]_vars


\* --------------------------------------------- fetch_positive_news, alone
\* fetch_positive_news applied to one response of the News API.
\* A text of n characters with blanks at the given positions.
Text(n, blanks) ==
    Str([i \in 1..n |-> IF i \in blanks THEN " " ELSE Lowers[(i % 26) + 1]])

\* Descriptions around MAX_DESCRIPTION_LEN: plain, with whitespace where
\* line 117 cuts, and with whitespace at both ends, which line 112 strips.
LongDescriptions ==
    { Text(n, blanks) :
        n \in {MAX_DESCRIPTION_LEN - 1, MAX_DESCRIPTION_LEN,
               MAX_DESCRIPTION_LEN + 1, MAX_DESCRIPTION_LEN + 5},
        blanks \in { {}, {MAX_DESCRIPTION_LEN - 3},
                     {MAX_DESCRIPTION_LEN - 4, MAX_DESCRIPTION_LEN - 3} } }
    \cup { Text(n, {1, n}) :
             n \in {MAX_DESCRIPTION_LEN + 1, MAX_DESCRIPTION_LEN + 2,
                    MAX_DESCRIPTION_LEN + 3} }

Descriptions == LongDescriptions \cup {TxtDesc, TxtBlank, Null}

Articles ==
    { Article(title, description, url) :
        title \in {TxtTitle, TxtBlank, Null},
        description \in Descriptions,
        url \in {TxtUrl, Null} }

\* The articles that come before another in the result set.
EarlierArticles ==
    { Article(TxtTitle, TxtDesc, TxtUrl), Article(TxtBlank, TxtDesc, TxtUrl),
      Article(TxtTitle, Null, TxtUrl), Article(TxtTitle, TxtDesc, TxtBlank) }

FailedResponses ==
    { Response(FALSE, 0, FALSE, NewsBody("ok", <<>>)),
      Response(TRUE, 429, FALSE, NewsBody("ok", <<>>)),
      Response(TRUE, 500, FALSE, NewsBody("ok", <<>>)),
      Response(TRUE, 200, FALSE, NewsBody("ok", <<>>)),
      Response(TRUE, 200, TRUE, NewsBody("error", <<>>)) }

FetchResponses ==
    FailedResponses
    \cup { Response(TRUE, 200, TRUE, NewsBody("ok", <<>>)) }
    \cup { Response(TRUE, 200, TRUE, NewsBody("ok", <<a>>)) : a \in Articles }
    \cup { Response(TRUE, 200, TRUE, NewsBody("ok", <<b, a>>)) :
             b \in EarlierArticles, a \in Articles }

InitFetch ==
    /\ env = [TELEGRAM_TOKEN |-> TRUE, OPENWEATHER_API_KEY |-> TRUE,
              NEWS_API_KEY |-> TRUE]
    /\ app = [pc |-> "validate", handler |-> FALSE, job |-> FALSE]
    /\ file = NoFile
    /\ heap = [o \in ObjIds |-> {}]
    /\ bot_data = NoObj
    /\ h = IdleHandler
    /\ d = IdleDigest
    /\ reg = IdleReg
    /\ wfail = FALSE
    /\ fetch \in {[IdleFetch EXCEPT !.phase = "requested", !.response = r] :
                    r \in FetchResponses}

\* Lines 100-120: client.get has returned the response (or raised); the
\* rest of fetch_positive_news runs.
fetch_returns ==
    /\ fetch.phase = "requested"
    /\ fetch' = [fetch EXCEPT !.phase = "returned",
                              !.result = fetch_positive_news(fetch.response)]
    /\ UNCHANGED <<env, app, file, heap, bot_data, h, d, reg, wfail>>

NextFetch == fetch_returns

SpecFetch == InitFetch /\ [][NextFetch]_vars


\* ================================================================== claims
\* The ids a reader of subscribers.json finds in it.
FileIds == {file.text[i].v : i \in {j \in DOMAIN file.text : file.text[j].t = "num"}}

\* The delivery failures of the samples that carry a permanent marker
\* ("forbidden" or "chat not found" in any letter case).
PermanentTexts == {ErrForbidden, ErrChatNotFound}
\* The recipients of the cycle whose delivery failed permanently.
PermanentlyFailed ==
    {c \in d.snapshot : d.att[c].n = 1 /\ ~d.att[c].ok /\ d.att[c].err \in PermanentTexts}

\* The cycle has ended: the job returned, or raised out of the last save.
CycleEnded == d.pc \in {"done", "failed"}

\* C1: in one cycle every recipient of the snapshot taken when the delivery
\* loop starts gets exactly one delivery attempt, whatever the outcomes of
\* the other attempts and their order; nobody is attempted twice, nobody
\* outside the snapshot is attempted.
C1_OneAttemptEach ==
    /\ \A c \in Ids : d.att[c].n <= 1
    /\ \A c \in Ids \ d.snapshot : d.att[c].n = 0
    /\ CycleEnded => \A c \in d.snapshot : d.att[c].n = 1
    /\ d.pc = "sending" =>
          /\ d.chat_id \in d.snapshot /\ d.chat_id \notin d.remaining
          /\ \A c \in d.snapshot : d.att[c].n = IF c \in d.remaining THEN 0 ELSE 1

\* A cycle ended in which the delivery to one recipient failed permanently
\* and another recipient was attempted all the same, with a success or a
\* transient failure.
C1_Witness ==
    /\ d.pc = "done"
    /\ \E c1, c2 \in d.snapshot :
          /\ c1 # c2
          /\ c1 \in PermanentlyFailed
          /\ d.att[c2].n = 1 /\ c2 \notin PermanentlyFailed

\* C2: with no subscribe during the cycle, after a cycle over snapshot S the
\* registry is S minus exactly the permanently failed recipients: the
\* delivered and the transiently failed ones stay, the permanently failed
\* ones are neither in the registry nor in the file.
C2_PruneExactlyPermanent ==
    (d.pc = "done" /\ d.added = {}) =>
        /\ Subscribers = d.snapshot \ PermanentlyFailed
        /\ \A c \in d.snapshot :
              (d.att[c].ok \/ d.att[c].err = ErrTimedOut) => c \in Subscribers
        /\ \A c \in PermanentlyFailed : c \notin Subscribers /\ c \notin FileIds
        /\ d.stale_chat_ids = PermanentlyFailed

\* A cycle without concurrent subscribe ended with a permanent failure
\* (pruned) and a transient one (kept).
C2_Witness ==
    /\ d.pc = "done" /\ d.added = {}
    /\ PermanentlyFailed # {}
    /\ \E c \in d.snapshot : ~d.att[c].ok /\ d.att[c].err = ErrTimedOut

\* C3: an id added by start_handler at an await point of a cycle in progress
\* is in the subscriber set and in the file once the handler and the cycle
\* have completed, also when the cycle had found that id unreachable before
\* it was added.  (Left out here, in the claim's favour: an id whose delivery
\* failed permanently only after it was added.)
C3_AddNeverLost ==
    (d.pc = "done" /\ h.pc = "idle") =>
        \A c \in d.added :
            (c \notin d.stale_chat_ids \/ c \in d.readded) =>
                c \in Subscribers /\ (~wfail => c \in FileIds)

\* C4: an id added by start_handler while a cycle is in progress that prunes
\* a different id: after both, the file holds the added id and not the
\* pruned id (and so does the subscriber set).
C4_AddSurvivesPrune ==
    (d.pc = "done" /\ d.stale_chat_ids # {}) =>
        /\ \A c \in d.added \ d.stale_chat_ids : c \in FileIds /\ c \in Subscribers
        /\ FileIds \cap d.stale_chat_ids = {}
        /\ FileIds = Subscribers

\* A cycle that pruned ended, during whose deliveries an id that was not in
\* the loop's copy was added.
C4_Witness ==
    /\ d.pc = "done" /\ d.stale_chat_ids # {}
    /\ h.pc = "idle"
    /\ \E c \in d.added : c \notin d.snapshot /\ c \in FileIds


\* The lines of message m whose kind is in ks, in order.
LinesOf(m, ks) == SelectSeq(m, LAMBDA l : l.k \in ks)
WeatherKinds == {"temp", "feels_like", "humidity", "description"}

\* What C5 asks of the message rendered from the results w and n of the
\* two fetches.
WellFormedFor(w, n, m) ==
    LET weather_ok == w.exc = "none"
        news_match == n.exc = "none" /\ n.news.some
        data == LinesOf(m, WeatherKinds)
        text == LinesOf(m, {"text"})
    IN  /\ m # <<>>
        /\ Len(LinesOf(m, {"weather_unavailable"})) = IF weather_ok THEN 0 ELSE 1
        /\ Len(data) = IF weather_ok THEN 4 ELSE 0
        /\ weather_ok =>
              /\ [i \in 1..4 |-> data[i].k] = <<"temp", "feels_like", "humidity", "description">>
              /\ data[1].n = w.data.temp /\ data[2].n = w.data.feels_like
              /\ data[3].n = w.data.humidity /\ data[4].s = w.data.description
        /\ Len(LinesOf(m, {"no_news"})) = IF news_match THEN 0 ELSE 1
        /\ Len(text) = IF news_match THEN 3 ELSE 0
        /\ news_match =>
              /\ text[1].s = n.news.article.title
              /\ text[2].s = n.news.article.description
              /\ text[3].s = n.news.article.url
              /\ SubSeq(m, Len(m) - 2, Len(m)) = text

\* C5: build_daily_message returns a message for each of the 6 combinations
\* of the outcomes of the two fetches: the four weather lines iff the
\* weather fetch succeeded, else the one weather-unavailable line; the three
\* news lines (title, description, URL) iff the news fetch succeeded with a
\* match, else the one no-news line; one fetch failing does not keep the
\* other's result out.  Once both fetches have ended the message is
\* rendered whatever they ended with.
C5_MessageForEveryOutcome ==
    [][ /\ (d.pc = "fetching" /\ d'.pc # "fetching") =>
               /\ d'.pc = "sending"
               /\ WellFormedFor(d.weather_result, d.news_result, d'.message)
        /\ (d.pc = "fetching" /\ d.weather_result.st = "done"
               /\ d.news_result.st = "done" /\ ~Returning) => ENABLED begin_delivery
      ]_vars

\* A message is out whose weather fetch failed and whose news fetch found
\* an article: the unavailable line and the three news lines.
C5_Witness ==
    /\ d.pc = "sending"
    /\ Len(LinesOf(d.message, {"weather_unavailable"})) = 1
    /\ Len(LinesOf(d.message, {"text"})) = 3

\* The digest's coroutine runs on an asyncio event loop, which runs every
\* ready callback in turn, and every wait of the cycle is bounded: the HTTP
\* client has a timeout and the bot's requests have one.  So a step of the
\* cycle that stays or keeps becoming possible is taken.
FairSpec ==
    /\ Spec
    /\ SF_vars(\E r \in WeatherResponses : weather_responds(r))
    /\ SF_vars(\E r \in NewsResponses : news_responds(r))
    /\ SF_vars(begin_delivery)
    /\ SF_vars(\E o \in SendOutcomes : send_message_returns(o))
    /\ WF_vars(send_daily_digest_returns)
    /\ WF_vars(start_handler_returns)

\* Every recipient of the loop's copy has had its delivery attempt.
AllAttempted == d.snapshot # {} /\ \A c \in d.snapshot : d.att[c].n = 1

\* C6: a cycle triggered with at least one subscriber eventually ends, and
\* by then a delivery has been attempted to every subscriber of its
\* snapshot, also when both fetches fail and when deliveries fail.
C6_CycleCompletes ==
    (d.pc = "fetching") ~> (CycleEnded /\ AllAttempted)

\* A cycle ended whose message has both placeholders and one of whose
\* deliveries failed.
C6_Witness ==
    /\ CycleEnded /\ AllAttempted
    /\ Len(LinesOf(d.message, {"weather_unavailable"})) = 1
    /\ Len(LinesOf(d.message, {"no_news"})) = 1
    /\ \E c \in d.snapshot : ~d.att[c].ok

\* C7: triggered while the subscriber set is empty, send_daily_digest makes
\* no upstream request and no delivery call and leaves the subscriber set
\* and the file as they are.
C7_EmptySetNoOp ==
    [][ /\ (d.pc = "idle" /\ d'.pc # "idle" /\ Subscribers = {}) =>
               /\ d'.pc = "skipped"
               /\ d'.nweather = 0 /\ d'.nnews = 0 /\ d'.nsaves = 0
               /\ \A c \in Ids : d'.att[c].n = 0
               /\ Subscribers' = {} /\ file' = file /\ bot_data' = bot_data
        /\ d.pc = "skipped" =>
               /\ d'.pc = "idle"
               /\ Subscribers' = {} /\ file' = file /\ bot_data' = bot_data
      ]_vars

\* The job ran with nobody subscribed and returned at once.
C7_Witness == d.pc = "skipped" /\ Subscribers = {} /\ d.nweather = 0


\* The file states C8 calls unusable.
UnusableFiles ==
    MissingFiles \cup UnreadableFiles \cup NotJsonFiles \cup NotArrayFiles
    \cup StringItemFiles \cup NullItemFiles \cup NestedItemFiles

\* C8: load_subscribers never raises and returns the empty set for every
\* unusable file: missing, unreadable, not JSON, JSON that is no array, an
\* array with an element that is no integer (a non-numeric string, null, a
\* nested array or object).
C8_LoadNeverRaises ==
    (reg.phase = "loaded" /\ file \in UnusableFiles) =>
        reg.result.raised = "none" /\ reg.result.value = {}

\* The step of start_handler that subscribes chat c.
Subscribing(c) == h.pc = "idle" /\ h'.pc # "idle" /\ h'.chat_id = c

\* The text of the file is the ids of S in ascending order, each once.
HoldsExactly(f, S) ==
    /\ f.exists /\ f.readable
    /\ f.text = json_dumps(sorted(Iter(S)))
    /\ \A i, j \in DOMAIN f.text :
          (i < j /\ f.text[i].t = "num" /\ f.text[j].t = "num") =>
              f.text[i].v < f.text[j].v

\* C9: subscribing is idempotent on the set and always persists: a run of
\* start_handler for a chat id adds it and nothing else, a run for an id
\* that is subscribed already leaves the set as it is, and each run writes
\* the file (the whole set), the second as well as the first; a run whose
\* write fails raises.
C9_SubscribeIdempotent ==
    [][ \A c \in Ids : Subscribing(c) =>
            /\ Subscribers' = Subscribers \cup {c}
            /\ c \in Subscribers => Subscribers' = Subscribers
            /\ h'.again = (c \in Subscribers)
            /\ h'.pc \in {"reply", "done"} =>
                  h'.saved /\ ~wfail' /\ HoldsExactly(file', Subscribers')
            /\ h'.pc \notin {"reply", "done"} =>
                  h'.pc = "failed" /\ wfail' /\ ~h'.saved
      ]_vars

\* start_handler has run for an id that was subscribed already, beside
\* another subscriber, and has written the whole set to the file.
C9_Witness ==
    /\ h.pc = "done" /\ h.again /\ h.saved
    /\ h.chat_id \in Subscribers
    /\ Cardinality(Subscribers) > 1
    /\ HoldsExactly(file, Subscribers)

\* C10: for every set S, save_subscribers(S) followed by load_subscribers()
\* returns S, whatever order the ids were inserted in; the file written is
\* the ids of S ascending, without duplicates.
C10_SaveLoadRoundTrip ==
    /\ reg.phase \in {"saved", "reloaded"} =>
          /\ HoldsExactly(file, reg.set)
          /\ FileIds = reg.set
          /\ Len(file.text) = IF reg.set = {} THEN 2 ELSE 2 * Cardinality(reg.set) + 1
    /\ reg.phase = "reloaded" =>
          reg.result.raised = "none" /\ reg.result.value = reg.set

\* A set of three ids of both signs, inserted in descending order, was
\* saved and loaded back.
C10_Witness ==
    /\ reg.phase = "reloaded"
    /\ Len(reg.order) >= 3
    /\ \A i \in 1..(Len(reg.order) - 1) : reg.order[i] > reg.order[i + 1]
    /\ -1 \in reg.set
    /\ reg.result.value = reg.set


\* C11: when the last write succeeded, in every state (each is an await
\* point or idle: an add or a prune runs from the mutation to the save
\* within one step) the file holds exactly the ids of the in-memory
\* subscriber set, and after an add or a prune it is that set written out
\* in full.  Here the file agrees with the set also before the first
\* mutation, the set having been loaded from it.
C11_FileMatchesSet ==
    (~wfail /\ app.pc = "polling") =>
        /\ FileIds = Subscribers
        /\ (h.saved \/ d.nsaves > 0) => HoldsExactly(file, Subscribers)

\* A new chat subscribed while a cycle was delivering; the handler waits in
\* reply_text, and the file holds the grown set.
C11_Witness ==
    /\ d.pc = "sending" /\ h.pc = "reply"
    /\ h.saved /\ ~h.again /\ ~wfail
    /\ Cardinality(Subscribers) > 1
    /\ FileIds = Subscribers

\* C12: a failed write does not lose the mutation: when the write of an add
\* or of a prune fails, the in-memory set holds the mutated value; the loop
\* of every cycle copies the in-memory set; and the first write that
\* succeeds after a failed one writes the in-memory set in full, so that the
\* file equals it again.
C12_FailedWriteKeepsMutation ==
    [][ /\ (h.pc = "idle" /\ h'.pc = "failed") =>
               /\ wfail'
               /\ Subscribers' = Subscribers \cup {h'.chat_id}
        /\ (d.pc = "sending" /\ d'.pc = "failed") =>
               /\ wfail'
               /\ d'.stale_chat_ids # {}
               /\ Subscribers' = Subscribers \ d'.stale_chat_ids
        /\ (d.pc = "fetching" /\ d'.pc = "sending") => d'.snapshot = Subscribers
        /\ (wfail /\ ~wfail') =>
               /\ HoldsExactly(file', Subscribers')
               /\ FileIds' = Subscribers'
      ]_vars

\* The write of an add failed: the id is in the in-memory set and not in
\* the file.
C12_Witness ==
    /\ wfail /\ h.pc = "failed"
    /\ h.chat_id \in Subscribers
    /\ h.chat_id \notin FileIds

\* C13: every run of start_handler for an update with an effective chat and
\* an effective message has called reply_text exactly once by the time it
\* ends (the call follows the add in the same step of the handler).
C13_ReplyExactlyOnce ==
    (h.pc \in {"done", "failed"} /\ h.chat_id # NoId /\ h.message) =>
        h.replies = 1

\* One of the three configuration values is missing or empty.
AnyMissing ==
    ~env.TELEGRAM_TOKEN \/ ~env.OPENWEATHER_API_KEY \/ ~env.NEWS_API_KEY

\* C14: with any of the three configuration values missing, start-up ends
\* in validate_env: the file is not loaded, neither the handler nor the job
\* is registered, polling does not start and nothing runs; with all three
\* present validate_env does not raise (start-up then stops only if
\* load_subscribers raises).
C14_MissingConfigStopsStartup ==
    /\ AnyMissing =>
          /\ app.pc \in {"validate", "crashed"}
          /\ bot_data = NoObj /\ ~app.handler /\ ~app.job
          /\ h = IdleHandler /\ d = IdleDigest
          /\ file \in InitFiles
    /\ (~AnyMissing /\ app.pc = "crashed") =>
          load_subscribers(file).raised # "none"
    /\ app.pc \notin {"validate", "crashed"} => ~AnyMissing

\* Start-up has failed with the bot token present and another value missing.
C14_Witness ==
    /\ app.pc = "crashed" /\ env.TELEGRAM_TOKEN /\ AnyMissing
    /\ bot_data = NoObj


\* s without the whitespace at its ends.
Trimmed(s) ==
    LET inner == {i \in DOMAIN s : s[i] \notin Whitespace}
    IN  IF inner = {} THEN <<>>
        ELSE [i \in 1..(1 + (CHOOSE k \in inner : \A j \in inner : j <= k)
                          - (CHOOSE k \in inner : \A j \in inner : k <= j))
                |-> s[i - 1 + (CHOOSE k \in inner : \A j \in inner : k <= j)]]

\* Article a has a title, a description and a URL that are non-empty after
\* trimming (a null field counts as empty).
Usable(a) ==
    /\ ~a.title.none /\ Trimmed(a.title.s) # <<>>
    /\ ~a.description.none /\ Trimmed(a.description.s) # <<>>
    /\ ~a.url.none /\ Trimmed(a.url.s) # <<>>

\* The upstream answered successfully.
Successful(r) == r.net /\ r.status = 200 /\ r.json /\ r.body.status = "ok"

\* The positions of the usable articles of the response just handled, and
\* the first of them.
UsableAt == {i \in DOMAIN fetch.response.body.articles :
               Usable(fetch.response.body.articles[i])}
FirstUsable == CHOOSE i \in UsableAt : \A j \in UsableAt : i <= j

\* C15: the description returned for the selected article: when the trimmed
\* description is longer than MAX_DESCRIPTION_LEN, a text of at most
\* MAX_DESCRIPTION_LEN characters that is a prefix of it followed by "...";
\* otherwise, also at exactly MAX_DESCRIPTION_LEN, the trimmed description
\* itself.
C15_DescriptionTruncated ==
    (fetch.phase = "returned" /\ fetch.result.news.some /\ UsableAt # {}) =>
        LET original ==
                Trimmed(fetch.response.body.articles[FirstUsable].description.s)
            returned == fetch.result.news.article.description
        IN  IF Len(original) > MAX_DESCRIPTION_LEN
            THEN /\ Len(returned) <= MAX_DESCRIPTION_LEN
                 /\ \E k \in 0..Len(original) :
                        returned = SubSeq(original, 1, k) \o <<".", ".", ".">>
            ELSE returned = original

\* A description longer than the limit came back cut before a blank: it is
\* shorter than the limit and ends with the marker.
C15_Witness ==
    /\ fetch.phase = "returned" /\ fetch.result.news.some /\ UsableAt # {}
    /\ Len(Trimmed(fetch.response.body.articles[FirstUsable].description.s))
           > MAX_DESCRIPTION_LEN
    /\ Len(fetch.result.news.article.description) < MAX_DESCRIPTION_LEN
    /\ Len(fetch.result.news.article.description) > 3

\* C16: on a successful response fetch_positive_news raises nothing and
\* returns the first article, in upstream order, whose title, description
\* and URL are non-empty after trimming, with the trimmed title and URL; it
\* returns None when no article is usable or there is no article.
C16_FirstUsableArticle ==
    (fetch.phase = "returned" /\ Successful(fetch.response)) =>
        /\ fetch.result.exc = "none"
        /\ fetch.result.news.some = (UsableAt # {})
        /\ UsableAt # {} =>
              LET a == fetch.response.body.articles[FirstUsable] IN
              /\ fetch.result.news.article.title = Trimmed(a.title.s)
              /\ fetch.result.news.article.url = Trimmed(a.url.s)
              /\ fetch.result.news.article.description # <<>>
              /\ \A j \in 1..(FirstUsable - 1) :
                    ~Usable(fetch.response.body.articles[j])

\* The second article came back, the first one lacking a field.
C16_Witness ==
    /\ fetch.phase = "returned" /\ Successful(fetch.response)
    /\ fetch.result.news.some
    /\ UsableAt # {} /\ FirstUsable = 2


\* A step of the cycle (not one of start_handler) that leaves it running
\* or ended.
CycleStep == d' # d /\ h' = h /\ d.pc # "idle" /\ d'.pc # "idle"

\* C17: in a cycle one weather request and one news request are made and no
\* more; the message is rendered, and the first delivery attempted, only
\* when both requests have ended (with a result or a failure); the message
\* is rendered once and is the text of every delivery attempt of the cycle.
C17_OneFetchEachOneMessage ==
    [][ /\ (d.pc = "idle" /\ d'.pc = "fetching") =>
               /\ d'.nweather = 1 /\ d'.nnews = 1
               /\ d'.weather_result.st = "pending" /\ d'.news_result.st = "pending"
        /\ CycleStep =>
               /\ d'.nweather = d.nweather /\ d'.nnews = d.nnews
               /\ d.weather_result.st = "done" => d'.weather_result.st # "pending"
               /\ d.news_result.st = "done" => d'.news_result.st # "pending"
        /\ d'.pc = "fetching" =>
               /\ d'.message = <<>>
               /\ \A c \in Ids : d'.att[c].n = 0
        /\ (d.pc = "fetching" /\ d'.pc = "sending") =>
               /\ d.weather_result.st = "done" /\ d.news_result.st = "done"
               /\ d'.message # <<>>
        /\ (d.pc = "sending" /\ d'.pc # "idle") => d'.message = d.message
        /\ d'.pc \in {"sending", "done", "failed"} =>
               \A c \in Ids : d'.att[c].n > 0 => d'.att[c].text = d'.message
      ]_vars

\* A cycle over two recipients ended: one request each, both sent the
\* message.
C17_Witness ==
    /\ d.pc = "done" /\ Cardinality(d.snapshot) = 2
    /\ d.nweather = 1 /\ d.nnews = 1
    /\ d.message # <<>>
    /\ \A c \in d.snapshot : d.att[c].n = 1 /\ d.att[c].text = d.message

\* C18: a cycle in which no delivery failed permanently neither replaces
\* the in-memory set nor writes the file: none of its steps changes the set
\* object bot_data refers to, its members or the file, so that over the
\* cycle they change only in steps of start_handler.
C18_NoPruneNoWrite ==
    [][ (CycleStep /\ d'.stale_chat_ids = {}) =>
            /\ bot_data' = bot_data /\ heap' = heap
            /\ file' = file /\ wfail' = wfail
            /\ d'.nsaves = 0 /\ d'.pc # "failed"
            /\ d'.subscribers = bot_data'
      ]_vars

\* A cycle ended without a stale id, one delivery having failed for a
\* while, and a chat having subscribed meanwhile.
C18_Witness ==
    /\ d.pc = "done" /\ d.stale_chat_ids = {} /\ d.nsaves = 0
    /\ d.added # {}
    /\ \E c \in d.snapshot : ~d.att[c].ok /\ d.att[c].err = ErrTimedOut

\* C19: the recipients of a cycle are the subscribers at the time the
\* delivery loop starts, after the message is built: an id added while the
\* fetches were in flight is among them and has had its delivery attempt by
\* the end of the cycle; an id added after the loop started that is not
\* among them has no attempt in the cycle and is in the subscriber set,
\* which the end of the cycle leaves as it is for the next.
C19_SnapshotAtLoopStart ==
    [][ /\ (d.pc = "fetching" /\ d'.pc = "sending") =>
               /\ d'.snapshot = Subscribers
               /\ d.added \subseteq d'.snapshot
        /\ d'.pc \in {"sending", "done", "failed"} =>
               \A c \in d'.added \ d'.snapshot :
                   d'.att[c].n = 0 /\ c \in Subscribers'
        /\ d'.pc \in {"done", "failed"} =>
               \A c \in d'.snapshot : d'.att[c].n = 1
        /\ (d.pc \in {"done", "failed"} /\ d'.pc = "idle") =>
               Subscribers' = Subscribers
      ]_vars

\* A cycle ended during whose fetches a new chat subscribed (its handler
\* still waits in reply_text; a chat that was new when it was added and is
\* in the loop's copy was added before the loop started): it has had its
\* delivery attempt.
C19_Witness ==
    /\ d.pc = "done"
    /\ h.pc = "reply" /\ ~h.again
    /\ h.chat_id \in d.added \cap d.snapshot
    /\ d.att[h.chat_id].n = 1

=============================================================================
